---------------------------- MODULE Spec2Model ----------------------------
(***************************************************************************)
(* Model of crates/protocol/interop/src/safety.rs: the SafetyLevel enum,   *)
(* its derived Display, its FromStr implementation with                    *)
(* SafetyLevelParseError, and its serde encoding under                     *)
(* rename_all = "kebab-case".                                              *)
(*                                                                         *)
(* A Rust string is a sequence of characters; a character is a TLA+ string *)
(* of length one.  The conversions are computed on the characters, as the  *)
(* code computes them.  The serde encoding is modelled at the level of the *)
(* token carried inside the JSON string (the quotes serde_json adds and    *)
(* strips are left out).                                                   *)
(***************************************************************************)
EXTENDS Integers, Sequences, FiniteSets, TLC

VARIABLES s, origin, v, res, op

vars == <<s, origin, v, res, op>>

(***************************************************************************)
(* Bounds of the input space.                                              *)
(***************************************************************************)
\* longest string drawn freely over Alphabet
MaxLen == 4
\* most spaces put around a sample string (leading plus trailing)
MaxPad == 1

(***************************************************************************)
(* Characters.                                                             *)
(***************************************************************************)
UpperAZ == <<"A","B","C","D","E","F","G","H","I","J","K","L","M",
             "N","O","P","Q","R","S","T","U","V","W","X","Y","Z">>
LowerAZ == <<"a","b","c","d","e","f","g","h","i","j","k","l","m",
             "n","o","p","q","r","s","t","u","v","w","x","y","z">>

is_uppercase(c) == \E i \in DOMAIN UpperAZ : UpperAZ[i] = c
is_lowercase(c) == \E i \in DOMAIN LowerAZ : LowerAZ[i] = c

\* the characters of the model: letters, digits, '-', '_' and ' '
Chars ==
    { UpperAZ[i] : i \in DOMAIN UpperAZ } \cup { LowerAZ[i] : i \in DOMAIN LowerAZ }
    \cup {"0", "1", "2", "3", "4", "5", "6", "7", "8", "9", "-", "_", " "}

\* char::to_lowercase: an upper-case letter goes to its lower-case letter,
\* every other character of Chars is left alone
LowercaseOf ==
    [c \in Chars |->
        IF is_uppercase(c)
        THEN LowerAZ[CHOOSE i \in DOMAIN UpperAZ : UpperAZ[i] = c]
        ELSE c]

\* char::to_uppercase
UppercaseOf ==
    [c \in Chars |->
        IF is_lowercase(c)
        THEN UpperAZ[CHOOSE i \in DOMAIN LowerAZ : LowerAZ[i] = c]
        ELSE c]

char_to_lowercase(c) == LowercaseOf[c]

char_to_uppercase(c) == UppercaseOf[c]

\* str::to_lowercase, as called at the head of from_str
to_lowercase(str) == [i \in 1..Len(str) |-> char_to_lowercase(str[i])]

\* str::to_uppercase, used to spell inputs in upper case
to_uppercase(str) == [i \in 1..Len(str) |-> char_to_uppercase(str[i])]

(***************************************************************************)
(* The enum.  A variant is named by its Rust identifier; Ident gives the   *)
(* identifier's characters, which is what the derives work from.           *)
(***************************************************************************)
SafetyLevel == {"Finalized", "Safe", "LocalSafe", "CrossUnsafe", "Unsafe", "Invalid"}

Ident(x) ==
    CASE x = "Finalized"   -> <<"F","i","n","a","l","i","z","e","d">>
      [] x = "Safe"        -> <<"S","a","f","e">>
      [] x = "LocalSafe"   -> <<"L","o","c","a","l","S","a","f","e">>
      [] x = "CrossUnsafe" -> <<"C","r","o","s","s","U","n","s","a","f","e">>
      [] x = "Unsafe"      -> <<"U","n","s","a","f","e">>
      [] x = "Invalid"     -> <<"I","n","v","a","l","i","d">>

(***************************************************************************)
(* Results.  Ok(x) carries a variant; Err(kind, payload) carries the error *)
(* type and the string it holds.                                           *)
(***************************************************************************)
NoString == <<>>
Ok(x) == [tag |-> "Ok", val |-> x, kind |-> "none", msg |-> NoString]
SafetyLevelParseError(str) ==
    [tag |-> "Err", val |-> "none", kind |-> "SafetyLevelParseError", msg |-> str]
SerdeError(str) ==
    [tag |-> "Err", val |-> "none", kind |-> "serde", msg |-> str]
NoResult == [tag |-> "None", val |-> "none", kind |-> "none", msg |-> NoString]

(***************************************************************************)
(* The string literals of the source.                                      *)
(***************************************************************************)
Lit_finalized    == <<"f","i","n","a","l","i","z","e","d">>
Lit_safe         == <<"s","a","f","e">>
Lit_local_safe   == <<"l","o","c","a","l","-","s","a","f","e">>
Lit_localsafe    == <<"l","o","c","a","l","s","a","f","e">>
Lit_cross_unsafe == <<"c","r","o","s","s","-","u","n","s","a","f","e">>
Lit_crossunsafe  == <<"c","r","o","s","s","u","n","s","a","f","e">>
Lit_unsafe       == <<"u","n","s","a","f","e">>
Lit_invalid      == <<"i","n","v","a","l","i","d">>
Lit_unknown      == <<"u","n","k","n","o","w","n">>
Lit_123          == <<"1","2","3">>
Lit_empty        == <<>>
Lit_safe_space   == <<"s","a","f","e"," ">>
Lit_failed       == <<"f","a","i","l","e","d">>

(***************************************************************************)
(* Display, derived by derive_more on an enum of unit variants that carry  *)
(* no #[display] attribute: the variant's identifier is written as is.     *)
(***************************************************************************)
fmt(x) == Ident(x)

(***************************************************************************)
(* FromStr.                                                                *)
(***************************************************************************)
\* the match of from_str: `l` is the scrutinee, `str` the original input
match_token(l, str) ==
    CASE l = Lit_finalized                          -> Ok("Finalized")
      [] l = Lit_safe                               -> Ok("Safe")
      [] l = Lit_local_safe \/ l = Lit_localsafe     -> Ok("LocalSafe")
      [] l = Lit_cross_unsafe \/ l = Lit_crossunsafe -> Ok("CrossUnsafe")
      [] l = Lit_unsafe                             -> Ok("Unsafe")
      [] l = Lit_invalid                            -> Ok("Invalid")
      [] OTHER                                      -> SafetyLevelParseError(str)

RECURSIVE trim_start(_)
trim_start(str) ==
    IF str # <<>> /\ Head(str) = " " THEN trim_start(Tail(str)) ELSE str

RECURSIVE trim_end(_)
trim_end(str) ==
    IF str # <<>> /\ str[Len(str)] = " "
    THEN trim_end(SubSeq(str, 1, Len(str) - 1))
    ELSE str

\* variations of from_str that a slip in its code would produce
from_str_NoUnhyphenated(str) ==
    LET l == to_lowercase(str)
    IN  IF l = Lit_localsafe \/ l = Lit_crossunsafe
        THEN SafetyLevelParseError(str)
        ELSE match_token(l, str)
from_str_NoHyphenated(str) ==
    LET l == to_lowercase(str)
    IN  IF l = Lit_local_safe \/ l = Lit_cross_unsafe
        THEN SafetyLevelParseError(str)
        ELSE match_token(l, str)
from_str_CrossIsUnsafe(str) ==
    LET l == to_lowercase(str)
    IN  IF l = Lit_cross_unsafe \/ l = Lit_crossunsafe
        THEN Ok("Unsafe")
        ELSE match_token(l, str)
from_str_CaseSensitive(str) == match_token(str, str)
from_str_Trimmed(str) == match_token(to_lowercase(trim_end(trim_start(str))), str)
from_str_LoweredPayload(str) == match_token(to_lowercase(str), to_lowercase(str))

from_str(str) == match_token(to_lowercase(str), str)

(***************************************************************************)
(* serde, derived with rename_all = "kebab-case".  serde_derive renames a  *)
(* variant by writing its identifier in snake case (a '_' before every     *)
(* upper-case character but the first, each character lowered) and then    *)
(* replacing '_' by '-'.                                                   *)
(***************************************************************************)
RECURSIVE snake_from(_, _)
snake_from(name, i) ==
    IF i > Len(name) THEN <<>>
    ELSE (IF i > 1 /\ is_uppercase(name[i]) THEN <<"_">> ELSE <<>>)
         \o <<char_to_lowercase(name[i])>>
         \o snake_from(name, i + 1)

snake_case(name) == snake_from(name, 1)

kebab_case(name) ==
    LET sn == snake_case(name)
    IN  [i \in 1..Len(sn) |-> IF sn[i] = "_" THEN "-" ELSE sn[i]]

\* Serialize: the renamed variant, as a string
serialize(x) == kebab_case(Ident(x))

\* variations of the derived Deserialize
deserialize_NotRenamed(str) ==
    IF \E x \in SafetyLevel : Ident(x) = str
    THEN Ok(CHOOSE x \in SafetyLevel : Ident(x) = str)
    ELSE SerdeError(str)
deserialize_ViaFromStr(str) ==
    LET r == from_str(str)
    IN  IF r.tag = "Ok" THEN r ELSE SerdeError(str)

\* Deserialize: the string must be one of the renamed variants, exactly;
\* anything else is serde's unknown-variant error
deserialize(str) ==
    IF \E x \in SafetyLevel : kebab_case(Ident(x)) = str
    THEN Ok(CHOOSE x \in SafetyLevel : kebab_case(Ident(x)) = str)
    ELSE SerdeError(str)

(***************************************************************************)
(* Inputs: the strings handed to the two decoders.                         *)
(***************************************************************************)
\* the strings the source's tests parse
Samples ==
    { Lit_finalized, Lit_safe, Lit_local_safe, Lit_localsafe, Lit_cross_unsafe,
      Lit_crossunsafe, Lit_unsafe, Lit_invalid,
      Lit_unknown, Lit_123, Lit_empty, Lit_safe_space, Lit_failed }

\* str with the characters at the positions in m written in upper case
Recase(str, m) ==
    [i \in 1..Len(str) |-> IF i \in m THEN char_to_uppercase(str[i]) ELSE str[i]]

\* every spelling of str in upper, lower and mixed case
Spellings(str) == { Recase(str, m) : m \in SUBSET (1..Len(str)) }

Spaces(n) == [i \in 1..n |-> " "]

\* str with up to MaxPad spaces around it
Padded(str) ==
    { Spaces(p[1]) \o str \o Spaces(p[2]) :
        p \in { q \in (0..MaxPad) \X (0..MaxPad) : q[1] + q[2] <= MaxPad } }

Alphabet == {"s", "a", "f", "e", "S", " "}

\* every string over Alphabet of at most MaxLen characters
Free == UNION { [1..n -> Alphabet] : n \in 0..MaxLen }

Inputs ==
    UNION { Spellings(b) : b \in Samples }
    \cup UNION { Padded(b) \cup Padded(to_uppercase(b)) \cup Padded(fmt(x)) :
                 b \in Samples, x \in SafetyLevel }
    \cup Free

(***************************************************************************)
(* State.                                                                  *)
(*   s      the string at hand: an input, or the last rendering            *)
(*   origin how s came about: [by |-> "input" | "fmt" | "serialize",       *)
(*          of |-> the variant it was rendered from, or "none"]            *)
(*   v      the SafetyLevel value at hand, or "none"                       *)
(*   res    the result of the last decoding of s, or NoResult              *)
(*   op     the operation applied last                                     *)
(***************************************************************************)
Given == [by |-> "input", of |-> "none"]
RenderedBy(how, x) == [by |-> how, of |-> x]

Init ==
    /\ \/ s \in Inputs /\ v = "none"
       \/ s = Lit_empty /\ v \in SafetyLevel
    /\ origin = Given
    /\ res = NoResult
    /\ op = "init"

\* level.to_string(): the value at hand is rendered by Display
Fmt ==
    /\ v # "none"
    /\ s' = fmt(v)
    /\ origin' = RenderedBy("fmt", v)
    /\ res' = NoResult
    /\ op' = "fmt"
    /\ UNCHANGED v

\* serde_json::to_string(&level): the value at hand is serialized
Serialize ==
    /\ v # "none"
    /\ s' = serialize(v)
    /\ origin' = RenderedBy("serialize", v)
    /\ res' = NoResult
    /\ op' = "serialize"
    /\ UNCHANGED v

\* SafetyLevel::from_str(s)
FromStr ==
    /\ res' = from_str(s)
    /\ op' = "from_str"
    /\ UNCHANGED <<s, origin, v>>

\* serde_json::from_str::<SafetyLevel>(s)
Deserialize ==
    /\ res' = deserialize(s)
    /\ op' = "deserialize"
    /\ UNCHANGED <<s, origin, v>>

\* .unwrap() of a successful decoding: the decoded value becomes the value
\* at hand
Unwrap ==
    /\ res.tag = "Ok"
    /\ v # res.val
    /\ v' = res.val
    /\ op' = "unwrap"
    /\ UNCHANGED <<s, origin, res>>

Next == Fmt \/ Serialize \/ FromStr \/ Deserialize \/ Unwrap

Spec == Init /\ [][Next]_vars

TypeOK ==
    /\ v \in SafetyLevel \cup {"none"}
    /\ origin.by \in {"input", "fmt", "serialize"}
    /\ origin.of \in SafetyLevel \cup {"none"}
    /\ res.tag \in {"None", "Ok", "Err"}
    /\ op \in {"init", "fmt", "serialize", "from_str", "deserialize", "unwrap"}

(***************************************************************************)
(* The tables the claims state.                                            *)
(***************************************************************************)
\* the canonical token of each variant
CanonicalToken(x) ==
    CASE x = "Finalized"   -> Lit_finalized
      [] x = "Safe"        -> Lit_safe
      [] x = "LocalSafe"   -> Lit_local_safe
      [] x = "CrossUnsafe" -> Lit_cross_unsafe
      [] x = "Unsafe"      -> Lit_unsafe
      [] x = "Invalid"     -> Lit_invalid

CanonicalTokens == { CanonicalToken(x) : x \in SafetyLevel }

\* the parse table: accepted token, resulting variant
ParseTable ==
    { <<Lit_finalized, "Finalized">>, <<Lit_safe, "Safe">>,
      <<Lit_local_safe, "LocalSafe">>, <<Lit_localsafe, "LocalSafe">>,
      <<Lit_cross_unsafe, "CrossUnsafe">>, <<Lit_crossunsafe, "CrossUnsafe">>,
      <<Lit_unsafe, "Unsafe">>, <<Lit_invalid, "Invalid">> }

AcceptedTokens == { e[1] : e \in ParseTable }

\* what a decoding came to: which variant, or failure
Outcome(r) == <<r.tag, r.val>>

(***************************************************************************)
(* C1: Display is total and renders each variant as its lowercase,         *)
(* hyphenated token; LocalSafe is rendered "local-safe".                   *)
(***************************************************************************)
C1_DisplayIsCanonicalToken ==
    origin.by = "fmt" => s = CanonicalToken(origin.of)

(***************************************************************************)
(* C2: parsing the Display rendering of a variant succeeds and returns     *)
(* that variant.                                                           *)
(***************************************************************************)
C2_DisplayParseRoundTrip ==
    (op = "from_str" /\ origin.by = "fmt") => res = Ok(origin.of)

C2_Witness ==
    /\ op = "from_str"
    /\ origin = RenderedBy("fmt", "LocalSafe")
    /\ res = Ok("LocalSafe")

(***************************************************************************)
(* C3: from_str accepts the eight tokens of the parse table with the       *)
(* variants the table gives and nothing else (up to letter case); the two  *)
(* spellings of a multi-word variant parse alike and every variant is the  *)
(* result of some accepted token.                                          *)
(***************************************************************************)
C3_ParseTable ==
    /\ op = "from_str" =>
          /\ \A e \in ParseTable : s = e[1] => res = Ok(e[2])
          /\ res.tag = "Ok" => <<to_lowercase(s), res.val>> \in ParseTable
    /\ from_str(Lit_local_safe) = from_str(Lit_localsafe)
    /\ from_str(Lit_cross_unsafe) = from_str(Lit_crossunsafe)
    /\ \A x \in SafetyLevel : \E t \in AcceptedTokens : from_str(t) = Ok(x)

C3_Witness ==
    /\ op = "from_str"
    /\ origin = Given
    /\ s = Lit_crossunsafe
    /\ res = Ok("CrossUnsafe")

(***************************************************************************)
(* C4: the outcome of from_str depends only on the lowercased input; an    *)
(* accepted token parses to the same variant in lower, upper and mixed     *)
(* case.                                                                   *)
(***************************************************************************)
C4_CaseInsensitive ==
    op = "from_str" =>
        /\ Outcome(res) = Outcome(from_str(to_lowercase(s)))
        /\ Outcome(res) = Outcome(from_str(to_uppercase(s)))
        /\ to_lowercase(s) \in AcceptedTokens => res.tag = "Ok"

C4_Witness ==
    /\ op = "from_str"
    /\ to_lowercase(s) = Lit_cross_unsafe
    /\ s # to_lowercase(s)
    /\ s # to_uppercase(s)
    /\ res = Ok("CrossUnsafe")

(***************************************************************************)
(* C5: from_str returns an Err for every input whose lowercased form is    *)
(* not an accepted token: "", "unknown", "123", and a token with spaces    *)
(* around it such as "safe "; it always returns a Result.                  *)
(***************************************************************************)
C5_Rejection ==
    op = "from_str" =>
        /\ res.tag \in {"Ok", "Err"}
        /\ to_lowercase(s) \notin AcceptedTokens =>
              res.tag = "Err" /\ res.kind = "SafetyLevelParseError"
        /\ s \in {Lit_empty, Lit_unknown, Lit_123, Lit_safe_space} => res.tag = "Err"
        /\ (s # trim_end(trim_start(s))) => res.tag = "Err"

C5_Witness ==
    /\ op = "from_str"
    /\ s = Lit_safe_space
    /\ res.tag = "Err"

(***************************************************************************)
(* C6: a failed from_str carries the input as given, before lowercasing.   *)
(***************************************************************************)
C6_ErrorCarriesInput ==
    (op = "from_str" /\ res.tag = "Err") => res = SafetyLevelParseError(s)

C6_Witness ==
    /\ op = "from_str"
    /\ s = to_uppercase(Lit_unknown)
    /\ res.tag = "Err"
    /\ res.msg = s
    /\ res.msg # to_lowercase(s)

(***************************************************************************)
(* C7: the token a variant serializes to is the string Display renders it  *)
(* as.                                                                     *)
(***************************************************************************)
C7_SerializeAgreesWithDisplay ==
    origin.by = "serialize" => s = fmt(origin.of)

(***************************************************************************)
(* C8: deserializing the token a variant serializes to returns the         *)
(* variant; Finalized serializes to "finalized"; a token that is not one   *)
(* of the six kebab-case tokens, such as "failed", fails to deserialize.   *)
(***************************************************************************)
C8_SerdeRoundTrip ==
    /\ (op = "deserialize" /\ origin.by = "serialize") => res = Ok(origin.of)
    /\ origin = RenderedBy("serialize", "Finalized") => s = Lit_finalized
    /\ (op = "deserialize" /\ s \notin CanonicalTokens) =>
          res.tag = "Err" /\ res.kind = "serde"

C8_Witness ==
    /\ op = "deserialize"
    /\ origin = RenderedBy("serialize", "CrossUnsafe")
    /\ s = Lit_cross_unsafe
    /\ res = Ok("CrossUnsafe")

(***************************************************************************)
(* C9: every token deserialization accepts is accepted by from_str, with   *)
(* the same variant.                                                       *)
(***************************************************************************)
C9_DecodersAgree ==
    (op = "deserialize" /\ res.tag = "Ok") => from_str(s) = res

C9_Witness ==
    /\ op = "deserialize"
    /\ origin = Given
    /\ s = Lit_local_safe
    /\ res = Ok("LocalSafe")

(***************************************************************************)
(* C10: deserialization accepts the six lowercase kebab-case tokens only;  *)
(* the unhyphenated aliases and the upper- and mixed-case spellings that   *)
(* from_str accepts are rejected.                                          *)
(***************************************************************************)
C10_DeserializeIsExact ==
    op = "deserialize" =>
        /\ res.tag = "Ok" <=> s \in CanonicalTokens
        /\ s \in {Lit_localsafe, Lit_crossunsafe} => res.tag = "Err"
        /\ (to_lowercase(s) \in AcceptedTokens /\ s # to_lowercase(s)) =>
              res.tag = "Err" /\ from_str(s).tag = "Ok"

C10_Witness ==
    /\ op = "deserialize"
    /\ s = to_uppercase(Lit_local_safe)
    /\ res.tag = "Err"
    /\ from_str(s) = Ok("LocalSafe")

====
